---- MODULE Spec2Model ----
(***************************************************************************)
(* Model of the CORD-19 Explorer dashboard script (src/app.py): the tiered *)
(* data loading (cached sample load, chunked full load with a row cap and  *)
(* a fallback), the failure gate and the data preparation that follows.    *)
(* One behaviour is one browser session: the script runs top to bottom,    *)
(* and runs again each time the user picks a load mode.                    *)
(***************************************************************************)
EXTENDS Integers, Sequences, FiniteSets, TLC

\* ---------------------------------------------------------------- bounds
\* Largest number of whole 50,000-row chunks in a modelled CSV file.
MaxChunks == 11
\* Largest number of leading rows whose publish_time does not parse.
MaxBadDates == 1

\* ------------------------------------------------------ program constants
chunk_size == 50000
RowCap == 500000
ProgressMax == 1000000
SampleSmallRows == 10000
SampleMediumRows == 50000
DefaultYear == 2020

SAMPLE_PATH == "metadata.csv"
FULL_PATH == "metadata.csv/metadata.csv"

\* The three entries of the sidebar selectbox, in the order of the source.
LoadModes == <<"Sample10K", "Sample50K", "Full">>
ModeSet == {LoadModes[i] : i \in 1..Len(LoadModes)}
SampleSizes == {SampleSmallRows, SampleMediumRows}

\* ----------------------------------------------------------------- helpers
Min(a, b) == IF a <= b THEN a ELSE b

RECURSIVE SumSeq(_)
SumSeq(s) == IF s = <<>> THEN 0 ELSE s[1] + SumSeq(Tail(s))

\* --------------------------------------------------------------- the files
\* A source on disk.  layout says what the two paths of the script resolve
\* to: "nested" (metadata.csv is a directory holding metadata.csv), "flat"
\* (metadata.csv is the CSV file itself) or "absent".  rows is the number of
\* data rows after the header, malformedRow the position of a row the parser
\* rejects (0: none), hasPT whether the header names publish_time, badDates
\* the number of leading rows whose publish_time does not parse.
Remainders == {0, 20000}
RowCounts == {q * chunk_size + r : q \in 0..MaxChunks, r \in Remainders}
MalformedRows == {0} \cup {k * chunk_size + 1 : k \in 0..MaxChunks}

NestedFiles ==
    {[layout |-> "nested", rows |-> n, malformedRow |-> m, hasPT |-> h, badDates |-> b] :
        n \in RowCounts, m \in MalformedRows, h \in BOOLEAN, b \in 0..MaxBadDates}
FlatFiles ==
    {[layout |-> "flat", rows |-> n, malformedRow |-> m, hasPT |-> TRUE, badDates |-> 0] :
        n \in RowCounts, m \in {0, 1}}
AbsentFile ==
    [layout |-> "absent", rows |-> 0, malformedRow |-> 0, hasPT |-> TRUE, badDates |-> 0]
Files ==
    {f \in NestedFiles \cup FlatFiles : f.malformedRow <= f.rows /\ (f.hasPT \/ f.badDates = 0)}
        \cup {AbsentFile}

\* ------------------------------------------------------------ the values
\* What the name df (or filtered) can hold.  kind "unbound": the name is not
\* bound in the script's namespace; "None": Python's None; "df": a DataFrame
\* object, id telling the objects apart (1: the one the loader returned,
\* 2: the one dropna made, 3: the one the year filter made).
Unbound == [kind |-> "unbound", id |-> 0, nrows |-> 0, nbad |-> 0, skipped |-> 0,
            cols |-> {}, coerced |-> FALSE]
None == [kind |-> "None", id |-> 0, nrows |-> 0, nbad |-> 0, skipped |-> 0,
         cols |-> {}, coerced |-> FALSE]

NoRead == [path |-> "", ok |-> FALSE, exc |-> "none", nrows |-> 0]
\* An entry of st.cache_data (read: the read its value came from), and an
\* entry of prior.
NoEntry == [set |-> FALSE, value |-> None, read |-> NoRead]

VARIABLES
    file,          \* the source on disk (unchanged during the session)
    pc,            \* where the script is
    load_mode,     \* the selectbox value of this run
    df,            \* the script's name df
    filtered,      \* the script's name filtered
    chunks,        \* the lengths of the chunks appended so far
    total_rows,    \* the script's total_rows
    consumed,      \* rows the chunk iterator has handed out
    progress_log,  \* the values passed to progress_bar.progress, in order
    shown,         \* the messages (st.error/warning/info/success) of this run
    cache,         \* st.cache_data's entries of load_sample_data, by nrows
    sampleRead,    \* the pd.read_csv behind the last load_sample_data result
    reads,         \* read operations on the source made by this run
    retries,       \* times the except handler ran in this run
    outcome,       \* how the load of this run ended
    loaded,        \* the value the loader handed to the main content
    base,          \* the present contents of the object the loader returned
    prior          \* by load mode: the result of the last such request

vars == <<file, pc, load_mode, df, filtered, chunks, total_rows, consumed,
          progress_log, shown, cache, sampleRead, reads, retries, outcome,
          loaded, base, prior>>

\* ------------------------------------------------------------- exceptions
\* The classes the reads and the name lookup can raise; each is a subclass of
\* Exception, which is what both handlers of the script name.
ExceptionClasses ==
    {"FileNotFoundError", "IsADirectoryError", "NotADirectoryError", "ParserError",
     "NameError"}

\* A handler that would catch only an unreadable file.
IsException_OnlyOSError(exc) ==
    exc \in {"FileNotFoundError", "IsADirectoryError", "NotADirectoryError"}

\* `except Exception as e`: whether the handler catches exc.
IsException(exc) == exc \in ExceptionClasses

\* ------------------------------------------------------------ DataFrames
BaseCols == {"title", "journal"} \cup (IF file.hasPT THEN {"publish_time"} ELSE {})

\* The DataFrame a read of the first n rows of the file produces.
MkDf(n) ==
    [kind |-> "df", id |-> 1, nrows |-> n,
     nbad |-> IF file.hasPT THEN Min(file.badDates, n) ELSE 0,
     skipped |-> 0, cols |-> BaseCols, coerced |-> FALSE]

\* Whether the parser meets the malformed row within rows lo..hi.
MalformedIn(lo, hi) ==
    file.malformedRow # 0 /\ lo <= file.malformedRow /\ file.malformedRow <= hi

\* ------------------------------------------------------ load_sample_data
\* pd.read_csv("metadata.csv", nrows=nrows, low_memory=False)
SampleReadOutcome(nrows) ==
    IF file.layout = "absent"
    THEN [path |-> SAMPLE_PATH, ok |-> FALSE, exc |-> "FileNotFoundError", nrows |-> 0]
    ELSE IF file.layout = "nested"
    THEN [path |-> SAMPLE_PATH, ok |-> FALSE, exc |-> "IsADirectoryError", nrows |-> 0]
    ELSE IF MalformedIn(1, nrows)
    THEN [path |-> SAMPLE_PATH, ok |-> FALSE, exc |-> "ParserError", nrows |-> 0]
    ELSE [path |-> SAMPLE_PATH, ok |-> TRUE, exc |-> "none", nrows |-> Min(nrows, file.rows)]

\* The body of load_sample_data.  The frame read_csv returns is bound to no
\* name; `return df` looks df up in the script's namespace (g) and raises
\* NameError when it is unbound.  value is what the call returns, raised the
\* exception that leaves the function ("none" when it returns).
load_sample_data(nrows, g) ==
    LET rd == SampleReadOutcome(nrows)
        exc == IF ~rd.ok THEN rd.exc
               ELSE IF g.kind = "unbound" THEN "NameError" ELSE "none"
    IN  IF exc = "none" THEN [value |-> g, raised |-> "none", read |-> rd, error |-> FALSE]
        ELSE IF IsException(exc)
        THEN [value |-> None, raised |-> "none", read |-> rd, error |-> TRUE]
        ELSE [value |-> None, raised |-> exc, read |-> rd, error |-> FALSE]

\* A call of the @st.cache_data function: an entry stored for nrows is
\* returned (and the st.error it recorded replayed) without running the body.
CallSample(nrows) ==
    IF cache[nrows].set
    THEN [value |-> cache[nrows].value, raised |-> "none", ran |-> FALSE,
          read |-> cache[nrows].read, error |-> cache[nrows].value.kind = "None"]
    ELSE LET b == load_sample_data(nrows, df)
         IN  [value |-> b.value, raised |-> b.raised, ran |-> TRUE, read |-> b.read,
              error |-> b.error]

\* st.cache_data stores the value of a call that returned.
CacheAfter(nrows, c) ==
    IF c.ran /\ c.raised = "none"
    THEN [cache EXCEPT ![nrows] = [set |-> TRUE, value |-> c.value, read |-> c.read]]
    ELSE cache

ModeRows(m) == IF m = "Sample10K" THEN SampleSmallRows ELSE SampleMediumRows

\* ---------------------------------------------------------------- Init
Init ==
    /\ file \in Files
    /\ pc = "dispatch"
    /\ load_mode = LoadModes[1]
    /\ df = Unbound
    /\ filtered = Unbound
    /\ chunks = <<>>
    /\ total_rows = 0
    /\ consumed = 0
    /\ progress_log = <<>>
    /\ shown = {}
    /\ cache = [n \in SampleSizes |-> NoEntry]
    /\ sampleRead = NoRead
    /\ reads = 0
    /\ retries = 0
    /\ outcome = "none"
    /\ loaded = Unbound
    /\ base = Unbound
    /\ prior = [m \in ModeSet |-> NoEntry]

\* The user picks an entry of the selectbox: the script runs again from the
\* top in a fresh namespace; only st.cache_data's entries survive.
SelectMode(m) ==
    /\ pc \in {"stopped", "rendered", "crashed"}
    /\ load_mode' = m
    /\ pc' = "dispatch"
    /\ df' = Unbound
    /\ filtered' = Unbound
    /\ chunks' = <<>>
    /\ total_rows' = 0
    /\ consumed' = 0
    /\ progress_log' = <<>>
    /\ shown' = {}
    /\ sampleRead' = NoRead
    /\ reads' = 0
    /\ retries' = 0
    /\ outcome' = "none"
    /\ loaded' = Unbound
    /\ base' = Unbound
    /\ UNCHANGED <<file, cache, prior>>

\* df = load_sample_data(10000) / df = load_sample_data(50000)
LoadSampleMode ==
    /\ pc = "dispatch"
    /\ load_mode \in {"Sample10K", "Sample50K"}
    /\ LET c == CallSample(ModeRows(load_mode))
       IN  /\ cache' = CacheAfter(ModeRows(load_mode), c)
           /\ sampleRead' = c.read
           /\ reads' = IF c.ran THEN reads + 1 ELSE reads
           /\ shown' = IF c.error THEN shown \cup {"error_sample"} ELSE shown
           /\ IF c.raised = "none"
              THEN /\ df' = c.value
                   /\ pc' = "gate"
                   /\ outcome' = IF c.value.kind = "None" THEN "SampleFailed" ELSE "SampleOk"
              ELSE /\ df' = df
                   /\ pc' = "crashed"
                   /\ outcome' = "Unhandled"
    /\ UNCHANGED <<file, load_mode, filtered, chunks, total_rows, consumed, progress_log,
                   retries, loaded, base, prior>>

\* ------------------------------------------------------ the full dataset
\* Lines 59-64: the locals of the chunked load and the empty progress bar.
\* (The iterator of line 66 opens the file at its first step, ReadChunk.)
FullStart ==
    /\ pc = "dispatch"
    /\ load_mode = "Full"
    /\ chunks' = <<>>
    /\ total_rows' = 0
    /\ consumed' = 0
    /\ progress_log' = <<>>
    /\ pc' = "reading"
    /\ UNCHANGED <<file, load_mode, df, filtered, shown, cache, sampleRead, reads,
                   retries, outcome, loaded, base, prior>>

\* What pd.read_csv("metadata.csv/metadata.csv", chunksize=...) raises when it
\* is asked for the rows after the first `done` ones ("none": nothing).
ChunkReadError(done) ==
    IF file.layout = "absent" THEN "FileNotFoundError"
    ELSE IF file.layout = "flat" THEN "NotADirectoryError"
    ELSE IF MalformedIn(done + 1, Min(done + chunk_size, file.rows)) THEN "ParserError"
    ELSE "none"

\* The iterator stops once the rows are used up; a file of a header and no
\* rows still yields one (empty) first chunk.
IteratorExhausted(done, yielded) == done >= file.rows /\ yielded > 0

\* len(chunk): chunk_size rows, fewer in the last chunk.
ChunkLen(done) == Min(chunk_size, file.rows - done)

\* A safety limit that lets the chunk reaching the limit pass.
CapReached_Strict(total) == total > RowCap

\* A loop without the safety limit.
CapReached_Never(total) == FALSE

\* if total_rows >= 500000
CapReached(total) == total >= RowCap

\* A progress value: the quotient n / d of a division, kept as the fraction
\* num/den in lowest terms (equal quotients are equal records).
RECURSIVE GCD(_, _)
GCD(a, b) == IF b = 0 THEN a ELSE GCD(b, a % b)
Frac(n, d) == LET g == GCD(n, d) IN [num |-> n \div g, den |-> d \div g]
One == Frac(1, 1)
FracLeq(a, b) == a.num * b.den <= b.num * a.den
FracEq(a, b) == a = b
FracMin(a, b) == IF FracLeq(a, b) THEN a ELSE b

\* A progress measured against the row limit instead of the assumed maximum.
ProgressValue_OfCap(total) == FracMin(Frac(total, RowCap), One)

\* min(total_rows / 1000000, 1.0)
ProgressValue(total) == FracMin(Frac(total, ProgressMax), One)

\* One turn of the for loop of lines 66-77: the iterator's next step and the
\* loop body.  A raised exception leaves the try block for its handler.
ReadChunk ==
    /\ pc = "reading"
    /\ reads' = reads + 1
    /\ LET exc == ChunkReadError(consumed)
       IN  IF exc # "none"
           THEN /\ IF IsException(exc)
                   THEN pc' = "except" /\ outcome' = "Failed"
                   ELSE pc' = "crashed" /\ outcome' = "Unhandled"
                /\ UNCHANGED <<chunks, total_rows, consumed, progress_log, shown>>
           ELSE IF IteratorExhausted(consumed, Len(chunks))
           THEN /\ pc' = "concat"
                /\ outcome' = "Exhausted"
                /\ UNCHANGED <<chunks, total_rows, consumed, progress_log, shown>>
           ELSE LET len == ChunkLen(consumed)
                    total == total_rows + len
                IN  /\ chunks' = Append(chunks, len)
                    /\ consumed' = consumed + len
                    /\ total_rows' = total
                    /\ progress_log' = Append(progress_log, ProgressValue(total))
                    /\ IF CapReached(total)
                       THEN /\ shown' = shown \cup {"warning_limited"}
                            /\ pc' = "concat"
                            /\ outcome' = "CappedAtLimit"
                       ELSE /\ shown' = shown
                            /\ pc' = "reading"
                            /\ outcome' = outcome
    /\ UNCHANGED <<file, load_mode, df, filtered, cache, sampleRead, retries, loaded,
                   base, prior>>

\* Lines 79-85: pd.concat of the chunks, or "No data loaded" and st.stop().
Concat ==
    /\ pc = "concat"
    /\ IF chunks # <<>>
       THEN /\ df' = MkDf(SumSeq(chunks))
            /\ pc' = "gate"
            /\ UNCHANGED <<shown, outcome>>
       ELSE /\ df' = df
            /\ shown' = shown \cup {"error_no_data"}
            /\ pc' = "stopped"
            /\ outcome' = "NoData"
    /\ UNCHANGED <<file, load_mode, filtered, chunks, total_rows, consumed, progress_log,
                   cache, sampleRead, reads, retries, loaded, base, prior>>

\* A handler that tries again when the sample load gave nothing.
ExceptFallback_Retrying ==
    /\ pc = "except"
    /\ retries' = retries + 1
    /\ LET c == CallSample(SampleSmallRows)
       IN  /\ cache' = cache
           /\ sampleRead' = c.read
           /\ reads' = IF c.ran THEN reads + 1 ELSE reads
           /\ shown' = shown \cup {"error_full", "info_fallback"}
           /\ df' = c.value
           /\ pc' = IF c.value.kind = "None" /\ retries < 2 THEN "except" ELSE "gate"
           /\ outcome' = IF c.value.kind = "None" THEN "RetryFailed" ELSE "Succeeded"
    /\ UNCHANGED <<file, load_mode, filtered, chunks, total_rows, consumed, progress_log,
                   loaded, base, prior>>

\* Lines 87-90: the handler of the full load: report, then
\* df = load_sample_data(10000).
ExceptFallback ==
    /\ pc = "except"
    /\ retries' = retries + 1
    /\ LET c == CallSample(SampleSmallRows)
       IN  /\ cache' = CacheAfter(SampleSmallRows, c)
           /\ sampleRead' = c.read
           /\ reads' = IF c.ran THEN reads + 1 ELSE reads
           /\ shown' = shown \cup {"error_full", "info_fallback"}
                             \cup (IF c.error THEN {"error_sample"} ELSE {})
           /\ IF c.raised = "none"
              THEN /\ df' = c.value
                   /\ pc' = "gate"
                   /\ outcome' = IF c.value.kind = "None" THEN "RetryFailed" ELSE "Succeeded"
              ELSE /\ df' = df
                   /\ pc' = "crashed"
                   /\ outcome' = "Unhandled"
    /\ UNCHANGED <<file, load_mode, filtered, chunks, total_rows, consumed, progress_log,
                   loaded, base, prior>>

\* Lines 92-107: `if df is None` stops the script with "Failed to load dataset";
\* otherwise the title, the success message and the metrics are rendered.
FailureGate ==
    /\ pc = "gate"
    /\ prior' = [prior EXCEPT ![load_mode] = [set |-> TRUE, value |-> df, read |-> NoRead]]
    /\ IF df.kind = "unbound"
       THEN pc' = "crashed" /\ UNCHANGED <<shown, loaded, base>>
       ELSE IF df.kind = "None"
       THEN /\ shown' = shown \cup {"error_failed"}
            /\ pc' = "stopped"
            /\ UNCHANGED <<loaded, base>>
       ELSE /\ shown' = shown \cup {"success"}
            /\ pc' = "main"
            /\ loaded' = df
            /\ base' = df
    /\ UNCHANGED <<file, load_mode, df, filtered, chunks, total_rows, consumed,
                   progress_log, cache, sampleRead, reads, retries, outcome>>

\* ------------------------------------------------------ data preparation
\* The publication years of the modelled files: the row at position i of the
\* file is of year YearOf(i) when its publish_time parses.
Years == 2019..2021
YearOf(i) == 2019 + (i % 3)

\* The positions 1..n whose year is y.
CountUpto(n, y) ==
    LET k == y - 2019 IN IF k = 0 THEN n \div 3 ELSE (n + 3 - k) \div 3

\* The rows of DataFrame d whose year column holds y: the parsed year of
\* publish_time, or the default year where the column was missing.
CountYear(d, y) ==
    IF "year" \notin d.cols THEN 0
    ELSE IF "publish_time" \notin d.cols THEN (IF y = DefaultYear THEN d.nrows ELSE 0)
    ELSE CountUpto(d.skipped + d.nrows, y) - CountUpto(d.skipped, y)

RECURSIVE CountRange(_, _, _)
CountRange(d, lo, hi) ==
    IF lo > hi THEN 0 ELSE CountYear(d, lo) + CountRange(d, lo + 1, hi)

SetMin(S) == CHOOSE x \in S : \A y \in S : x <= y
SetMax(S) == CHOOSE x \in S : \A y \in S : x >= y

\* Lines 115-123.  Assigning a column changes the object df names; dropna
\* makes a new object and df is bound to it.
PrepareData ==
    /\ pc = "main"
    /\ IF "publish_time" \in df.cols
       THEN /\ base' = [base EXCEPT !.coerced = TRUE]
            /\ df' = [kind |-> "df", id |-> 2, nrows |-> df.nrows - df.nbad, nbad |-> 0,
                      skipped |-> df.nbad, cols |-> df.cols \cup {"year"},
                      coerced |-> TRUE]
            /\ shown' = shown
       ELSE /\ base' = [base EXCEPT !.cols = @ \cup {"year"}]
            /\ df' = [df EXCEPT !.cols = @ \cup {"year"}]
            /\ shown' = shown \cup {"warning_no_publish_time"}
    /\ pc' = "prepared"
    /\ UNCHANGED <<file, load_mode, filtered, chunks, total_rows, consumed, progress_log,
                   cache, sampleRead, reads, retries, outcome, loaded, prior>>

\* Lines 129-135: the year slider (the user picks lo..hi between the least
\* and the greatest year) and the boolean-mask selection, which makes a new
\* object; without year data filtered is df itself.
FilterYears ==
    /\ pc = "prepared"
    /\ LET present == {y \in Years : CountYear(df, y) > 0}
       IN  IF "year" \in df.cols /\ present # {}
           THEN /\ \E lo \in SetMin(present)..SetMax(present) :
                   \E hi \in lo..SetMax(present) :
                      filtered' = [kind |-> "df", id |-> 3,
                                   nrows |-> CountRange(df, lo, hi), nbad |-> 0,
                                   skipped |-> df.skipped, cols |-> df.cols,
                                   coerced |-> df.coerced]
                /\ shown' = shown
           ELSE /\ filtered' = df
                /\ shown' = shown \cup {"info_no_year"}
    /\ pc' = "rendered"
    /\ UNCHANGED <<file, load_mode, df, chunks, total_rows, consumed, progress_log,
                   cache, sampleRead, reads, retries, outcome, loaded, base, prior>>

\* ------------------------------------------------------- specification
Next ==
    \/ \E m \in ModeSet : SelectMode(m)
    \/ LoadSampleMode
    \/ FullStart
    \/ ReadChunk
    \/ Concat
    \/ ExceptFallback
    \/ FailureGate
    \/ PrepareData
    \/ FilterYears

Spec == Init /\ [][Next]_vars

\* The script is synchronous: once started, a run goes on to its end.  A new
\* run needs the user, so SelectMode is not forced.
RunStep ==
    \/ LoadSampleMode
    \/ FullStart
    \/ ReadChunk
    \/ Concat
    \/ ExceptFallback
    \/ FailureGate
    \/ PrepareData
    \/ FilterYears

FairSpec == Spec /\ WF_vars(RunStep)

\* ===================================================================
\* Properties
\* ===================================================================
SampleModes == {"Sample10K", "Sample50K"}
AfterLoad == {"gate", "main", "prepared", "rendered", "stopped"}

\* The full load meets no read error before the row limit: the nested path
\* resolves and no malformed row lies within the first RowCap rows.
NoReadErrorBeforeCap == file.layout = "nested" /\ ~MalformedIn(1, RowCap)

\* The rows accumulated after the first i chunks.
Accumulated(i) == SumSeq(SubSeq(chunks, 1, i))

\* C1: in Full mode the rows accumulated by the chunk loop, and the rows of
\* the DataFrame built from them, never exceed 500,000, after every chunk
\* and whatever the size of the file.
C1_RowCapNeverExceeded ==
    load_mode = "Full" =>
        /\ total_rows <= RowCap
        /\ total_rows = SumSeq(chunks)
        /\ consumed <= RowCap
        /\ (df.kind = "df" => df.nrows <= RowCap)

C1_Witness ==
    /\ load_mode = "Full"
    /\ file.rows > RowCap
    /\ pc = "gate"
    /\ df.kind = "df"
    /\ df.nrows = RowCap

\* C2: a SampleSmall / SampleMedium request on a readable source returns a
\* DataFrame of exactly min(R, 10,000) / min(R, 50,000) rows, not a Failure.
C2_SampleReturnsHeadRows ==
    (pc = "gate" /\ load_mode \in SampleModes /\ sampleRead.ok) =>
        /\ df.kind = "df"
        /\ df.nrows = Min(file.rows, ModeRows(load_mode))

\* C3: a Full load of a file of R <= 500,000 rows that meets no read error
\* returns exactly R rows and does not emit the "Limited to 500,000 rows"
\* warning.
C3_FullBelowCapNotTruncated ==
    (pc = "gate" /\ load_mode = "Full" /\ file.rows <= RowCap /\ retries = 0) =>
        /\ df.kind = "df"
        /\ df.nrows = file.rows
        /\ "warning_limited" \notin shown

\* C4: a Full load of a file of R > 500,000 rows that meets no read error
\* returns exactly 500,000 rows with the warning emitted, and reads and keeps
\* nothing after the chunk that reached the limit.
C4_FullAboveCapTruncated ==
    (load_mode = "Full" /\ file.rows > RowCap /\ NoReadErrorBeforeCap) =>
        /\ pc \notin {"except", "crashed", "stopped"}
        /\ consumed <= RowCap
        /\ Len(chunks) * chunk_size <= RowCap
        /\ (pc \in {"concat", "gate", "main", "prepared", "rendered"} =>
                /\ outcome = "CappedAtLimit"
                /\ "warning_limited" \in shown
                /\ consumed = RowCap
                /\ SumSeq(chunks) = RowCap)
        /\ (pc = "gate" => df.kind = "df" /\ df.nrows = RowCap)
        /\ (pc \in {"main", "prepared", "rendered"} =>
                loaded.kind = "df" /\ loaded.nrows = RowCap)

C4_Witness ==
    /\ load_mode = "Full"
    /\ file.rows > RowCap
    /\ file.malformedRow > RowCap
    /\ pc = "main"
    /\ loaded.nrows = RowCap
    /\ "warning_limited" \in shown

\* C5: after a read step of the Full load failed, the loader retries with a
\* 10,000-row sample read of the same source file the Full load was reading,
\* and the result is exactly what that read gives (none of the chunks read
\* before the failure are in it).
C5_FallbackRetriesSameSource ==
    (pc = "gate" /\ load_mode = "Full" /\ retries = 1) =>
        /\ sampleRead.path = FULL_PATH
        /\ df = (IF sampleRead.ok THEN MkDf(sampleRead.nrows) ELSE None)
        /\ df.nrows <= SampleSmallRows

\* C6: whatever the load mode and wherever a read fails, the load ends in a
\* DataFrame or in None; no exception leaves the loader; None is reported as
\* "Failed to load dataset" and stops the script, and the success message
\* and the main content are rendered only when a DataFrame exists.
C6_NoUnhandledFailure ==
    /\ pc # "crashed"
    /\ outcome # "Unhandled"
    /\ (pc = "gate" => df.kind \in {"df", "None"})
    /\ ("error_failed" \in shown =>
            pc = "stopped" /\ df.kind = "None" /\ "success" \notin shown)
    /\ ("success" \in shown => loaded.kind = "df")
    /\ (pc \in {"main", "prepared", "rendered"} =>
            loaded.kind = "df" /\ "success" \in shown)
    /\ (pc = "stopped" /\ df.kind = "None" => "error_failed" \in shown)

C6_Witness ==
    /\ load_mode = "Full"
    /\ Len(chunks) > 0
    /\ retries = 1
    /\ pc = "stopped"
    /\ df.kind = "None"
    /\ "error_failed" \in shown

\* C7 (as stated): ... and the last progress value is 1.0 when the load ended
\* by reaching the 500,000-row limit.
C7_FinalProgressIsOneWhenCapped ==
    (load_mode = "Full" /\ outcome = "CappedAtLimit") =>
        FracEq(progress_log[Len(progress_log)], One)

\* C7 (amended): during a Full load the progress values are non-decreasing,
\* the value after each chunk is min(accumulated rows / 1,000,000, 1.0), and
\* the last value is 500,000/1,000,000 = 0.5 when the load ended by reaching
\* the limit, or R/1,000,000 when the file of R rows was used up below it.
C7_ProgressMonotoneFinalHalfWhenCapped ==
    load_mode = "Full" =>
        /\ Len(progress_log) = Len(chunks)
        /\ \A i \in 1..Len(progress_log) :
              /\ FracEq(progress_log[i], FracMin(Frac(Accumulated(i), ProgressMax), One))
              /\ (i > 1 => FracLeq(progress_log[i - 1], progress_log[i]))
        /\ (outcome = "CappedAtLimit" =>
              FracEq(progress_log[Len(progress_log)], Frac(1, 2)))
        /\ (outcome = "Exhausted" /\ file.rows < RowCap =>
              FracEq(progress_log[Len(progress_log)], Frac(file.rows, ProgressMax)))

C7_Witness ==
    /\ load_mode = "Full"
    /\ outcome = "CappedAtLimit"
    /\ pc = "concat"
    /\ Len(progress_log) > 1
    /\ progress_log[Len(progress_log)] = Frac(RowCap, ProgressMax)

\* C8: a repeated request of the same load mode against the unchanged
\* source, for every load mode and whatever modes were selected in between,
\* returns the earlier result without reading the source.
C8_EveryRepeatIsCached ==
    (pc = "gate" /\ prior[load_mode].set) =>
        /\ reads = 0
        /\ df = prior[load_mode].value

\* C9: the derived-view steps leave the DataFrame the loader returned as it
\* was: after preparation it (and the df the column information reads) has
\* the row count and the columns it had when the load returned.
C9_BaseDatasetUnchanged ==
    pc \in {"prepared", "rendered"} =>
        /\ base = loaded
        /\ df.nrows = loaded.nrows
        /\ df.cols = loaded.cols

\* C10: every Full load ends in exactly one of Exhausted, CappedAtLimit,
\* retry-Succeeded and retry-Failed; the loop takes one chunk per step; the
\* retry is entered only from a read error of the loop, at most once per
\* load, and its outcome is final.
FullTerminal == {"Exhausted", "CappedAtLimit", "Succeeded", "RetryFailed"}
C10_FullLoadTerminates ==
    /\ (load_mode = "Full" /\ pc = "dispatch") ~>
            (load_mode = "Full" /\ pc \in AfterLoad /\ outcome \in FullTerminal)
    /\ [](retries <= 1)
    /\ [](load_mode = "Full" /\ pc \in AfterLoad => outcome \in FullTerminal)
    /\ [][pc' = "except" => pc = "reading" /\ outcome' = "Failed"]_vars
    /\ [][pc = "reading" /\ pc' = "reading" => Len(chunks') = Len(chunks) + 1]_vars
    /\ [][pc = "except" => pc' = "gate" /\ outcome' \in {"Succeeded", "RetryFailed"}]_vars
    /\ [][(outcome \in {"Succeeded", "RetryFailed"} /\ pc' # "dispatch") =>
            (outcome' = outcome /\ pc' \notin {"reading", "except", "concat"})]_vars

C10_Witness ==
    /\ load_mode = "Full"
    /\ Len(chunks) > 0
    /\ retries = 1
    /\ pc = "gate"
    /\ outcome = "RetryFailed"

====
